---- MODULE Spec2Model ----
(***************************************************************************)
(* Model of the statistics and exopeptidase core of Clipper                *)
(* (src/clipper/clipper.py).  The annotation table self.annot is the pair  *)
(* annotCols (column order) and annot (column name -> values by row).      *)
(* Peptide sequences are tuples of one-character strings so that slicing   *)
(* (seq[-5:], compare[1:], compare[2:]) is computed as the code does.      *)
(***************************************************************************)
EXTENDS Integers, Sequences, FiniteSets, TLC

VARIABLES
    annotCols,    \* self.annot.columns, in order
    annot,        \* self.annot: column name -> sequence of row values
    pc,           \* position of the program
    cleared,      \* exopeptidase: set of sequences already checked
    sequences,    \* exopeptidase: sorted series of <<row index, sequence>>
    pos,          \* exopeptidase: position of the outer loop in sequences
    matching,     \* exopeptidase: matching_peptides of the current seed
    mpos,         \* exopeptidase: position of the inner loop in matching
    compare,      \* exopeptidase: cursor of the walk
    lpep,         \* exopeptidase: tracked length
    rag_flag,     \* exopeptidase: dipeptidase seed flag
    run,          \* number of the exopeptidase call in progress (1 or 2)
    first,        \* exopeptidase column left by the first call
    firstSeqs,    \* query_sequence column seen by the first call
    perm,         \* row order handed to the second call
    seeds,        \* exopeptidase: the seeds of the call in progress, in order
    lastMatch,    \* exopeptidase: the preceding match of the walk in progress
    threads,      \* threaded_annotate: the batches and their workers
    df,           \* self.df: the quant matrix, one row of values per peptide
    conditions,   \* self.conditions: ordered map condition -> channel substrings
    pairwise,     \* self.pairwise
    significance, \* self.significance
    err,          \* the exception that ended the run, "" when none
    percentile,   \* argument of the last percentile_fold call
    lastPercentile, \* argument of the call before it
    lastSig       \* significance columns left by the call before it

exoVars == <<cleared, sequences, pos, matching, mpos, compare, lpep, rag_flag,
             run, first, firstSeqs, perm, seeds, lastMatch>>
statVars == <<df, conditions, pairwise, significance, err, percentile,
              lastPercentile, lastSig>>
vars == <<annotCols, annot, pc, exoVars, statVars, threads>>

----------------------------------------------------------------------------
(* Bounds *)

MaxRows == 4
MaxStatRows == 2
MaxFoldRows == 3
MaxLength == 4
MaxCpu == 3

----------------------------------------------------------------------------
(* Values *)

\* threaded_annotate has not been called
NoThreads == [pc |-> "idle"]

\* a missing peptide sequence (np.nan in a column of strings)
NaNSeq == <<"NaN">>
\* a missing label (np.nan in a column of labels)
NaN == "NaN"

AnchorLen == 5

Aminopeptidase == "Aminopeptidase_activity"
Dipeptidase == "Dipeptidase_activity"
DipeptidaseSeed == "Dipeptidase_seed_Aminopeptidase_activity"

\* peptides of the input tables: a ladder over the anchor FGHIJ, a second
\* parent of EFGHIJ of another length, and a peptide shorter than the anchor
T5 == <<"F", "G", "H", "I", "J">>
P10 == <<"A", "B", "C", "D", "E">> \o T5
P9 == <<"B", "C", "D", "E">> \o T5
P8 == <<"C", "D", "E">> \o T5
P7 == <<"D", "E">> \o T5
P6 == <<"E">> \o T5
P5 == T5
X8 == <<"X", "Y", "E">> \o T5
H4 == <<"G", "H", "I", "J">>

Pool == {P10, P9, P7, P6, P5, X8, H4}
PoolOrder == {P8, X8, P7, P6}

Range(s) == {s[i] : i \in DOMAIN s}

Max(a, b) == IF a >= b THEN a ELSE b

----------------------------------------------------------------------------
(* The annotation table *)

\* initialize_annotation: the columns of the new table this core reads
BaseColumns == <<"query_sequence", "query_accession", "nterm_annot">>

\* DataFrame.__setitem__, column order: a new column goes last, an existing
\* one keeps its place
AssignCols(cols, name) ==
    IF name \in Range(cols) THEN cols ELSE Append(cols, name)

\* DataFrame.__setitem__, values
AssignVals(tbl, name, v) ==
    [c \in (DOMAIN tbl) \cup {name} |-> IF c = name THEN v ELSE tbl[c]]

NRows == Len(annot["query_sequence"])

----------------------------------------------------------------------------
(* exopeptidase: the pure parts *)

\* a slice that starts one character early
SliceFromEarly(s, n) == SubSeq(s, n, Len(s))

\* s[n:]
SliceFrom(s, n) == SubSeq(s, n + 1, Len(s))

\* one character more than s[-n:]
LastCharsLonger(s, n) == SubSeq(s, Max(1, Len(s) - n), Len(s))

\* s[-n:]
LastChars(s, n) == SubSeq(s, Max(1, Len(s) - n + 1), Len(s))

\* str.endswith
EndsWith(s, suffix) ==
    /\ Len(suffix) <= Len(s)
    /\ SubSeq(s, Len(s) - Len(suffix) + 1, Len(s)) = suffix

\* Series.dropna(): the non-missing entries with their row index
RECURSIVE DropNa(_, _)
DropNa(col, i) ==
    IF i > Len(col) THEN <<>>
    ELSE IF col[i] = NaNSeq THEN DropNa(col, i + 1)
    ELSE <<(<<i, col[i]>>)>> \o DropNa(col, i + 1)

\* position of entry i in the series sorted by descending length: behind
\* every longer entry and every earlier entry as long (mergesort is stable)
InsertByLen(s, i) ==
    1 + Cardinality({j \in DOMAIN s :
                        \/ Len(s[j][2]) > Len(s[i][2])
                        \/ Len(s[j][2]) = Len(s[i][2]) /\ j < i})

\* the shortest sequence first
SortByLenAscending(s) ==
    [k \in 1..Len(s) |->
        s[CHOOSE i \in DOMAIN s : InsertByLen(s, i) = Len(s) + 1 - k]]

\* sort_values(key=str.len, kind="mergesort", ascending=False)
SortByLen(s) ==
    [k \in 1..Len(s) |-> s[CHOOSE i \in DOMAIN s : InsertByLen(s, i) = k]]

IsMatch(e, char_match) == EndsWith(e[2], char_match)

\* sequences[sequences.str.endswith(char_match)]
MatchingPeptides(srt, char_match) ==
    SelectSeq(srt, LAMBDA e : IsMatch(e, char_match))

\* only the first row holding pep
FirstSeqIndex(col, pep) ==
    LET S == {i \in DOMAIN col : col[i] = pep}
    IN  {i \in S : \A j \in S : i <= j}

\* self.annot[self.annot["query_sequence"] == pep].index
SameSeqIndices(col, pep) == {i \in DOMAIN col : col[i] = pep}

\* the label on every row
SetLabelEveryRow(col, idx, label) == [i \in DOMAIN col |-> label]

\* for i in same_seq_indices: self.annot.loc[i, "exopeptidase"] = label
SetLabel(col, idx, label) ==
    [i \in DOMAIN col |-> IF i \in idx THEN label ELSE col[i]]

\* a walk whenever a row ends with the anchor
WalksOnAnyMatch(matching_peptides) == Len(matching_peptides) > 0

\* line 821: if len(matching_peptides) > 1
WalksOn(matching_peptides) == Len(matching_peptides) > 1

\* the flag alone decides
SeedStepByFlag(flag, pep, tracked) == flag

\* line 836: if rag_flag and len(pep) == lpep - 1
SeedStep(flag, pep, tracked) == flag /\ Len(pep) = tracked - 1

\* the seed is left out of the set
SeedNotCleared(done, seq) == done

\* line 816: cleared.add(seq)
SeedCleared(done, seq) == done \cup {seq}

\* the set kept from an earlier call
StaleCleared == cleared

\* cleared = set()
ClearedAtStart == {}

----------------------------------------------------------------------------
(* exopeptidase: the loop *)

QuerySequence == annot["query_sequence"]

\* lines 803-809: the set, the column and the sorted series; exopeptidase is
\* called on an annotated table, or after the statistics of the table
ExoBegin ==
    /\ pc \in {"ready", "classified"}
    /\ cleared' = ClearedAtStart
    /\ annotCols' = AssignCols(annotCols, "exopeptidase")
    /\ annot' = AssignVals(annot, "exopeptidase", [i \in 1..NRows |-> NaN])
    /\ sequences' = SortByLen(DropNa(QuerySequence, 1))
    /\ pos' = 1
    /\ matching' = <<>>
    /\ mpos' = 0
    /\ compare' = <<>>
    /\ lpep' = 0
    /\ rag_flag' = FALSE
    /\ pc' = "scan"
    /\ seeds' = <<>>
    /\ lastMatch' = "none"
    /\ UNCHANGED <<run, first, firstSeqs, perm>>
    /\ UNCHANGED <<statVars, threads>>

\* line 812, seq in cleared: next sequence
ExoSkip ==
    /\ pc = "scan"
    /\ pos <= Len(sequences)
    /\ sequences[pos][2] \in cleared
    /\ pos' = pos + 1
    /\ UNCHANGED <<annotCols, annot, pc, cleared, sequences, matching, mpos,
                   compare, lpep, rag_flag, run, first, firstSeqs, perm, seeds,
                   lastMatch>>
    /\ UNCHANGED <<statVars, threads>>

\* lines 812-823: seq becomes the seed of a walk
ExoSeed ==
    /\ pc = "scan"
    /\ pos <= Len(sequences)
    /\ LET seq == sequences[pos][2]
           char_match == LastChars(seq, AnchorLen)
           matching_peptides == MatchingPeptides(sequences, char_match)
       IN  /\ seq \notin cleared
           /\ rag_flag' = FALSE
           /\ cleared' = SeedCleared(cleared, seq)
           /\ seeds' = Append(seeds, seq)
           /\ lastMatch' = "none"
           /\ matching' = matching_peptides
           /\ IF WalksOn(matching_peptides)
              THEN /\ compare' = seq
                   /\ lpep' = Len(seq)
                   /\ mpos' = 1
                   /\ pc' = "walk"
                   /\ pos' = pos
              ELSE /\ pos' = pos + 1
                   /\ UNCHANGED <<compare, lpep, mpos, pc>>
    /\ UNCHANGED <<annotCols, annot, sequences, run, first, firstSeqs, perm>>
    /\ UNCHANGED <<statVars, threads>>

\* the end of the inner loop: the outer loop moves on
WalkAdvance ==
    IF mpos = Len(matching)
    THEN pc' = "scan" /\ pos' = pos + 1 /\ mpos' = 0
    ELSE pc' = "walk" /\ pos' = pos /\ mpos' = mpos + 1

\* lines 826-852: one candidate of the walk
ExoCandidate ==
    /\ pc = "walk"
    /\ mpos <= Len(matching)
    /\ LET pep == matching[mpos][2]
           same_seq_indices == SameSeqIndices(QuerySequence, pep)
           col == annot["exopeptidase"]
       IN  \/ /\ pep = SliceFrom(compare, 1)
              /\ cleared' = cleared \cup {pep}
              /\ compare' = pep
              /\ IF SeedStep(rag_flag, pep, lpep)
                 THEN /\ annot' = [annot EXCEPT !["exopeptidase"] =
                                      SetLabel(col, same_seq_indices, DipeptidaseSeed)]
                      /\ rag_flag' = rag_flag
                 ELSE /\ annot' = [annot EXCEPT !["exopeptidase"] =
                                      SetLabel(col, same_seq_indices, Aminopeptidase)]
                      /\ rag_flag' = FALSE
              /\ lpep' = lpep
              /\ lastMatch' = "one"
           \/ /\ pep # SliceFrom(compare, 1)
              /\ pep = SliceFrom(compare, 2)
              /\ lastMatch' = "two"
              /\ cleared' = cleared \cup {pep}
              /\ compare' = pep
              /\ rag_flag' = TRUE
              /\ lpep' = Len(pep)
              /\ annot' = [annot EXCEPT !["exopeptidase"] =
                              SetLabel(col, same_seq_indices, Dipeptidase)]
           \/ /\ pep # SliceFrom(compare, 1)
              /\ pep # SliceFrom(compare, 2)
              /\ UNCHANGED <<annot, cleared, compare, rag_flag, lpep, lastMatch>>
    /\ WalkAdvance
    /\ UNCHANGED <<annotCols, sequences, matching, run, first, firstSeqs, perm,
                   seeds>>
    /\ UNCHANGED <<statVars, threads>>

\* the outer loop is exhausted: exopeptidase returns
ExoReturn ==
    /\ pc = "scan"
    /\ pos > Len(sequences)
    /\ pc' = "done"
    /\ first' = IF run = 1 THEN annot["exopeptidase"] ELSE first
    /\ firstSeqs' = IF run = 1 THEN QuerySequence ELSE firstSeqs
    /\ UNCHANGED <<annotCols, annot, cleared, sequences, pos, matching, mpos,
                   compare, lpep, rag_flag, run, perm, seeds, lastMatch>>
    /\ UNCHANGED <<statVars, threads>>

\* the table of the first call, its rows in the order perm, is handed to a
\* second call
ExoAgain ==
    /\ pc = "done"
    /\ run = 1
    /\ run' = 2
    /\ pc' = "ready"
    /\ annot' = [c \in DOMAIN annot |-> [i \in 1..NRows |-> annot[c][perm[i]]]]
    /\ UNCHANGED <<annotCols, cleared, sequences, pos, matching, mpos, compare,
                   lpep, rag_flag, first, firstSeqs, perm, seeds, lastMatch>>
    /\ UNCHANGED <<statVars, threads>>

----------------------------------------------------------------------------
(* Specifications of the exopeptidase runs *)

Identity(n) == [i \in 1..n |-> i]

RowOrders(n) ==
    {f \in [1..n -> 1..n] : \A i, j \in 1..n : f[i] = f[j] => i = j}

Tables(pool, lens) == UNION {[1..n -> pool] : n \in lens}

\* the table after annotation: query_sequence filled, no exopeptidase column
InitTable(table) ==
    /\ annotCols = BaseColumns
    /\ annot = [c \in Range(BaseColumns) |->
                   IF c = "query_sequence" THEN table
                   ELSE [i \in 1..Len(table) |-> NaN]]
    /\ pc = "ready"
    /\ cleared = {}
    /\ sequences = <<>>
    /\ pos = 0
    /\ matching = <<>>
    /\ mpos = 0
    /\ compare = <<>>
    /\ lpep = 0
    /\ rag_flag = FALSE
    /\ run = 1
    /\ first = <<>>
    /\ firstSeqs = <<>>
    /\ seeds = <<>>
    /\ lastMatch = "none"
    /\ threads = NoThreads
    /\ df = [i \in 1..Len(table) |-> <<>>]
    /\ conditions = <<>>
    /\ pairwise = FALSE
    /\ significance = "all"
    /\ err = ""
    /\ percentile = 0
    /\ lastPercentile = 0
    /\ lastSig = <<>>

InitExo ==
    \E table \in Tables(Pool \cup {NaNSeq}, 0..MaxRows) :
        /\ InitTable(table)
        /\ perm = Identity(Len(table))

InitOrder ==
    \E table \in Tables(PoolOrder, 1..MaxRows) :
        /\ InitTable(table)
        /\ perm \in RowOrders(Len(table))

NextExo ==
    \/ ExoBegin
    \/ ExoSkip
    \/ ExoSeed
    \/ ExoCandidate
    \/ ExoReturn
    \/ ExoAgain

SpecExo == InitExo /\ [][NextExo]_vars

SpecOrder == InitOrder /\ [][NextExo]_vars

----------------------------------------------------------------------------
(* Claims about exopeptidase *)

HasExo == "exopeptidase" \in DOMAIN annot

Exopeptidase == annot["exopeptidase"]

Labelled(i) == Exopeptidase[i] # NaN

\* C1: on a table whose sequences are exactly ABCDEFGHIJ, BCDEFGHIJ and
\* DEFGHIJ, exopeptidase ends with BCDEFGHIJ labelled Aminopeptidase_activity,
\* DEFGHIJ labelled Dipeptidase_activity and ABCDEFGHIJ missing.
C1_Scenario ==
    (pc = "done" /\ Range(QuerySequence) = {P10, P9, P7}) =>
        \A i \in 1..NRows :
            /\ QuerySequence[i] = P9 => Exopeptidase[i] = Aminopeptidase
            /\ QuerySequence[i] = P7 => Exopeptidase[i] = Dipeptidase
            /\ QuerySequence[i] = P10 => Exopeptidase[i] = NaN

C1_Witness ==
    /\ pc = "done"
    /\ run = 1
    /\ QuerySequence = <<P7, P10, P9>>
    /\ Exopeptidase = <<Dipeptidase, NaN, Aminopeptidase>>

\* C2: two row orders of the same multiset of sequences give every sequence
\* the same final label.
C2_OrderIndependent ==
    (pc = "done" /\ run = 2) =>
        \A i \in DOMAIN firstSeqs : \A j \in 1..NRows :
            (firstSeqs[i] = QuerySequence[j] /\ firstSeqs[i] # NaNSeq)
                => first[i] = Exopeptidase[j]

\* C3: in every state of a run, two rows with the same sequence string carry
\* the same exopeptidase value.
C3_DuplicatesShareLabel ==
    (HasExo /\ pc \in {"scan", "walk", "done"}) =>
        \A i, j \in 1..NRows :
            (QuerySequence[i] = QuerySequence[j] /\ QuerySequence[i] # NaNSeq)
                => Exopeptidase[i] = Exopeptidase[j]

C3_Witness ==
    /\ HasExo
    /\ pc = "walk"
    /\ \E i, j \in 1..NRows :
           /\ i # j
           /\ QuerySequence[i] = QuerySequence[j]
           /\ Labelled(i)
           /\ Labelled(j)

\* C4: a second call on the table left by the first call (same query_sequence
\* column, the first call's labels in the exopeptidase column) gives every row
\* the label the first call gave it.
C4_Idempotent ==
    (pc = "done" /\ run = 2 /\ QuerySequence = firstSeqs) =>
        Exopeptidase = first

C4_Witness ==
    /\ pc = "done"
    /\ run = 2
    /\ QuerySequence = firstSeqs
    /\ \E i, j \in 1..NRows :
           /\ first[i] = Aminopeptidase
           /\ first[j] = DipeptidaseSeed
           /\ Exopeptidase[i] = Aminopeptidase
           /\ Exopeptidase[j] = DipeptidaseSeed

----------------------------------------------------------------------------
(* Numbers: a float is a fraction <<n, d>> in lowest terms with d >= 0;     *)
(* <<0, 0>> is NaN, <<1, 0>> is +Inf and <<-1, 0>> is -Inf.                 *)

Abs(x) == IF x < 0 THEN -x ELSE x

Sign(x) == IF x > 0 THEN 1 ELSE IF x < 0 THEN -1 ELSE 0

RECURSIVE GCD(_, _)
GCD(a, b) == IF b = 0 THEN a ELSE GCD(b, a % b)

\* the fraction n/d; x/0 is an infinity and 0/0 is NaN (IEEE division)
Q(n, d) ==
    IF d = 0 THEN <<Sign(n), 0>>
    ELSE LET g == GCD(Abs(n), Abs(d))
             sg == IF d < 0 THEN -1 ELSE 1
         IN  <<(sg * n) \div g, (sg * d) \div g>>

NaNQ == <<0, 0>>

IsNaN(q) == q = NaNQ

IsFinite(q) == q[2] # 0

QAdd(a, b) ==
    IF IsNaN(a) \/ IsNaN(b) THEN NaNQ
    ELSE IF ~IsFinite(a) THEN (IF ~IsFinite(b) /\ a # b THEN NaNQ ELSE a)
    ELSE IF ~IsFinite(b) THEN b
    ELSE Q(a[1] * b[2] + b[1] * a[2], a[2] * b[2])

QNeg(a) == <<-a[1], a[2]>>

QSub(a, b) == QAdd(a, QNeg(b))

QMul(a, b) ==
    IF IsNaN(a) \/ IsNaN(b) THEN NaNQ
    ELSE IF IsFinite(a) /\ IsFinite(b) THEN Q(a[1] * b[1], a[2] * b[2])
    ELSE <<Sign(a[1]) * Sign(b[1]), 0>>

\* a / b
QDiv(a, b) ==
    IF IsNaN(a) \/ IsNaN(b) THEN NaNQ
    ELSE IF ~IsFinite(b) THEN (IF IsFinite(a) THEN Q(0, 1) ELSE NaNQ)
    ELSE IF ~IsFinite(a) THEN <<a[1] * (IF b[1] < 0 THEN -1 ELSE 1), 0>>
    ELSE IF b[1] = 0 THEN <<Sign(a[1]), 0>>
    ELSE Q(a[1] * b[2] * Sign(b[1]), a[2] * Abs(b[1]))

\* a < b; false when either is NaN
QLess(a, b) ==
    /\ ~IsNaN(a)
    /\ ~IsNaN(b)
    /\ IF IsFinite(a) /\ IsFinite(b) THEN a[1] * b[2] < b[1] * a[2]
       ELSE IF IsFinite(a) THEN b[1] > 0
       ELSE IF IsFinite(b) THEN a[1] < 0
       ELSE a[1] < b[1]

RECURSIVE QSum(_)
QSum(s) == IF s = <<>> THEN Q(0, 1) ELSE QAdd(Head(s), QSum(Tail(s)))

\* np.log2 as a term: log2 of a negative number or of NaN is NaN, log2(0) is
\* -Inf, log2(+Inf) is +Inf
Log2(q) ==
    IF IsNaN(q) \/ q[1] < 0 THEN <<"log2", 0, 0>>
    ELSE <<"log2", q[1], q[2]>>

\* np.log10 as a term, as np.log2
Log10(q) ==
    IF IsNaN(q) \/ q[1] < 0 THEN <<"log10", 0, 0>>
    ELSE <<"log10", q[1], q[2]>>

IsNaNTerm(t) == t[2] = 0 /\ t[3] = 0

----------------------------------------------------------------------------
(* The quant matrix and the condition map *)

\* the columns of self.df: six quantification channels, which carry the quant
\* marker Q, and one metadata column, which does not
DfColumns ==
    << <<"Q", "a", "1">>, <<"Q", "a", "2">>, <<"Q", "b", "1">>,
       <<"Q", "b", "2">>, <<"Q", "c", "1">>, <<"Q", "c", "2">>,
       <<"M", "a", "1">> >>

\* self.patterns['quant']
QuantMarker == <<"Q">>

\* the conditions of the condition files: name and channel substrings
CondA == [name |-> "A", channels |-> << <<"a", "1">>, <<"a", "2">> >>]
CondB == [name |-> "B", channels |-> << <<"b">> >>]
CondC == [name |-> "C", channels |-> << <<"c">> >>]
CondD == [name |-> "D", channels |-> << <<"c", "1">> >>]
CondLow == [name |-> "low", channels |-> << <<"c">> >>]

\* the condition general_conditions falls back to
DefaultConditions ==
    << [name |-> "all",
        channels |-> << <<"1", "2", "6">>, <<"1", "2", "7">>, <<"1", "2", "8">>,
                        <<"1", "2", "9">>, <<"1", "3", "0">>, <<"1", "3", "1">>,
                        <<"1", "3", "2">>, <<"1", "3", "3">>, <<"1", "3", "4">> >>] >>

\* str.contains of a literal
Contains(name, sub) ==
    \E i \in 1..(Len(name) - Len(sub) + 1) :
        SubSeq(name, i, i + Len(sub) - 1) = sub

\* str.contains("|".join(channels)): an alternation of the substrings; the
\* join of an empty list is the empty pattern, which every name contains
ContainsAny(name, channels) ==
    IF channels = <<>> THEN Contains(name, <<>>)
    ELSE \E k \in DOMAIN channels : Contains(name, channels[k])

\* a column of self.df is a channel of a condition
IsChannel(name, channels) ==
    ContainsAny(name, channels) /\ Contains(name, QuantMarker)

\* self.df.columns[... & ...]: the selected columns, in column order
ColsOf(channels) ==
    SelectSeq([j \in DOMAIN DfColumns |-> j],
              LAMBDA j : IsChannel(DfColumns[j], channels))

\* self.df[cols] of one row
RowValues(row, cols) == [t \in DOMAIN cols |-> row[cols[t]]]

NotNa(vals) == SelectSeq(vals, LAMBDA v : ~IsNaN(v))

\* DataFrame.mean(axis=1): missing values are skipped, no value gives NaN
Mean(vals) ==
    LET v == NotNa(vals)
    IN  IF v = <<>> THEN NaNQ ELSE QDiv(QSum(v), Q(Len(v), 1))

\* the sample variance (ddof = 1) of the non-missing values
Variance(vals) ==
    LET v == NotNa(vals)
        mu == Mean(vals)
        sq == [t \in DOMAIN v |-> QMul(QSub(v[t], mu), QSub(v[t], mu))]
    IN  IF Len(v) < 2 THEN NaNQ ELSE QDiv(QSum(sq), Q(Len(v) - 1, 1))

\* DataFrame.std(axis=1) as a term: the square root of the variance
Std(vals) == LET w == Variance(vals) IN <<"sqrt", w[1], w[2]>>

\* std / mean as a term
CV(vals) ==
    LET w == Variance(vals)
        mu == Mean(vals)
    IN  <<"sqrt/", w[1], w[2], mu[1], mu[2]>>

RECURSIVE Flatten(_)
Flatten(ss) == IF ss = <<>> THEN <<>> ELSE Head(ss) \o Flatten(Tail(ss))

\* combinations(keys, 2): the index pairs i < j, in lexicographic order
Combinations2(k) ==
    Flatten([i \in 1..k |-> [d \in 1..(k - i) |-> <<i, i + d>>]])

\* each pair of conditions in one direction only
Permutations2OneWay(k) == Combinations2(k)

\* permutations(keys, 2): the index pairs i # j, in lexicographic order
Permutations2(k) ==
    Flatten([i \in 1..k |->
        [r \in 1..(k - 1) |-> <<i, IF r < i THEN r ELSE r + 1>>]])

\* a sequence of <<column name, values>> assigned in order
RECURSIVE AssignAllCols(_, _)
AssignAllCols(cols, assigns) ==
    IF assigns = <<>> THEN cols
    ELSE AssignAllCols(AssignCols(cols, Head(assigns)[1]), Tail(assigns))

RECURSIVE AssignAllVals(_, _)
AssignAllVals(tbl, assigns) ==
    IF assigns = <<>> THEN tbl
    ELSE AssignAllVals(AssignVals(tbl, Head(assigns)[1], Head(assigns)[2]),
                       Tail(assigns))

----------------------------------------------------------------------------
(* general_conditions *)

\* lines 577-580
EffectiveConditions(conds) == IF conds = <<>> THEN DefaultConditions ELSE conds

FoldName(a, b) == "Fold_change: " \o a \o "/" \o b

Log2FoldName(a, b) == "Log2_fold_change: " \o a \o "/" \o b

\* calc_stats(...)[0] for every row
MeanColumn(cond) ==
    [i \in DOMAIN df |-> Mean(RowValues(df[i], ColsOf(cond.channels)))]

\* lines 594-599
ConditionAssigns(conds) ==
    Flatten([k \in DOMAIN conds |->
        LET c == conds[k]
            cols == ColsOf(c.channels)
        IN  << <<c.name \o "_mean",
                 [i \in DOMAIN df |-> Mean(RowValues(df[i], cols))]>>,
               <<c.name \o "_deviation",
                 [i \in DOMAIN df |-> Std(RowValues(df[i], cols))]>>,
               <<c.name \o "_CV",
                 [i \in DOMAIN df |-> CV(RowValues(df[i], cols))]>> >>])

\* the difference of the means in place of their quotient
FoldChangeDifference(mean0, mean1) == QSub(mean0, mean1)

\* line 590: fold_change = mean0 / mean1
FoldChange(mean0, mean1) == QDiv(mean0, mean1)

\* lines 601-609
FoldAssigns(conds) ==
    IF Len(conds) > 1
    THEN LET pairs == Permutations2(Len(conds))
             means == [k \in DOMAIN conds |-> MeanColumn(conds[k])]
    IN  Flatten([t \in DOMAIN pairs |->
        LET c0 == conds[pairs[t][1]]
            c1 == conds[pairs[t][2]]
            fold_change == [i \in DOMAIN df |->
                               FoldChange(means[pairs[t][1]][i],
                                          means[pairs[t][2]][i])]
        IN  << <<FoldName(c0.name, c1.name), fold_change>>,
               <<Log2FoldName(c0.name, c1.name),
                 [i \in DOMAIN df |-> Log2(fold_change[i])]>> >>])
    ELSE <<>>

general_conditions ==
    /\ pc = "annotated"
    /\ LET conds == EffectiveConditions(conditions)
       IN  \E assigns \in {ConditionAssigns(conds) \o FoldAssigns(conds)} :
               /\ conditions' = conds
               /\ annotCols' = AssignAllCols(annotCols, assigns)
               /\ annot' = AssignAllVals(annot, assigns)
    /\ pc' = "conditions"
    /\ UNCHANGED <<df, pairwise, significance, err, percentile, lastPercentile,
                   lastSig>>
    /\ UNCHANGED <<exoVars, threads>>

----------------------------------------------------------------------------
(* percentile_fold *)

\* a percentile is a number of hundredths
PercentScale == 100

\* np.histogram: the default number of bins
NBins == 10

SigName(a, b) == "Fold " \o a \o "/" \o b \o " significance"

\* column.endswith("low"): the column name ends with the name of the second
\* condition
EndsWithLow(a, b) == b = "low"

Min(a, b) == IF a <= b THEN a ELSE b

RECURSIVE QMin(_)
QMin(data) ==
    IF Len(data) = 1 THEN data[1]
    ELSE LET m == QMin(Tail(data))
         IN  IF QLess(m, Head(data)) THEN m ELSE Head(data)

RECURSIVE QMax(_)
QMax(data) ==
    IF Len(data) = 1 THEN data[1]
    ELSE LET m == QMax(Tail(data))
         IN  IF QLess(Head(data), m) THEN m ELSE Head(data)

\* position of x in units of bins, from the lower edge lo of the range
BinPos(x, lo, hi) == QDiv(QMul(Q(NBins, 1), QSub(x, lo)), QSub(hi, lo))

\* the bin of x, 0-based; the last bin is closed on the right
BinOf(x, lo, hi) ==
    LET t == BinPos(x, lo, hi) IN Min(NBins - 1, t[1] \div t[2])

\* np.histogram(data): the range is (0, 1) without data and is widened by a
\* half on each side when all values are equal; bins[t] is the bin of data[t]
Histogram(data) ==
    LET lo == IF data = <<>> THEN Q(0, 1)
              ELSE IF QMin(data) = QMax(data) THEN QSub(QMin(data), Q(1, 2))
              ELSE QMin(data)
        hi == IF data = <<>> THEN Q(1, 1)
              ELSE IF QMin(data) = QMax(data) THEN QAdd(QMax(data), Q(1, 2))
              ELSE QMax(data)
    IN  [lo |-> lo, hi |-> hi, n |-> Len(data),
         bins |-> [t \in DOMAIN data |-> BinOf(data[t], lo, hi)]]

CountIn(h, b) == Cardinality({t \in DOMAIN h.bins : h.bins[t] = b})

CountBelow(h, b) == Cardinality({t \in DOMAIN h.bins : h.bins[t] < b})

\* rv_histogram(h).cdf(x): 0 below the range, 1 from the upper edge on, linear
\* within each bin; NaN for a missing x and for a histogram without data
Cdf(h, x) ==
    IF IsNaN(x) \/ h.n = 0 THEN NaNQ
    ELSE IF QLess(x, h.lo) THEN Q(0, 1)
    ELSE IF ~QLess(x, h.hi) THEN Q(1, 1)
    ELSE LET b == BinOf(x, h.lo, h.hi)
             frac == QSub(BinPos(x, h.lo, h.hi), Q(b, 1))
         IN  QDiv(QAdd(Q(CountBelow(h, b), 1), QMul(Q(CountIn(h, b), 1), frac)),
                  Q(h.n, 1))

\* both cutoffs at 1 - percentile
LeftCutoffHigh(p) == PercentScale - p

\* left_cutoff = percentile
LeftCutoff(p) == p

\* both cutoffs at percentile
RightCutoffLow(p) == p

\* right_cutoff = 1 - percentile
RightCutoff(p) == PercentScale - p

\* the two labels exchanged
ClassifySwapped(cd, p) ==
    IF QLess(Q(RightCutoff(p), PercentScale), cd) THEN "significant low"
    ELSE IF QLess(cd, Q(LeftCutoff(p), PercentScale)) THEN "significant high"
    ELSE NaN

\* classify_fold_change
Classify(cd, p) ==
    IF QLess(Q(RightCutoff(p), PercentScale), cd) THEN "significant high"
    ELSE IF QLess(cd, Q(LeftCutoff(p), PercentScale)) THEN "significant low"
    ELSE NaN

\* the whole table in every scope
SubframeWhole(tbl, a, b) == DOMAIN tbl["nterm_annot"]

\* lines 624-631: the rows of the subframe, or "skip"
Subframe(tbl, a, b) ==
    LET is_internal == {i \in DOMAIN tbl["nterm_annot"] :
                           tbl["nterm_annot"][i] = "Internal"}
    IN  IF significance = "all" THEN DOMAIN tbl["nterm_annot"]
        ELSE IF significance = "nterm"
             THEN IF EndsWithLow(a, b)
                  THEN (DOMAIN tbl["nterm_annot"]) \ is_internal
                  ELSE is_internal
        ELSE {}

\* subframe[column].dropna(), in row order
SubframeData(col, rows) ==
    NotNa(SelectSeq([i \in DOMAIN col |-> IF i \in rows THEN col[i] ELSE NaNQ],
                    LAMBDA v : TRUE))

\* lines 620-644 for the pairs from position t on; np.histogram raises
\* ValueError when the data hold an infinity
RECURSIVE PercentileLoop(_, _, _, _)
PercentileLoop(st, pairs, t, p) ==
    IF t > Len(pairs) THEN st
    ELSE
    LET a == conditions[pairs[t][1]].name
        b == conditions[pairs[t][2]].name
        sig == SigName(a, b)
        n == Len(st.tbl["query_sequence"])
        cols1 == AssignCols(st.cols, sig)
        tbl1 == AssignVals(st.tbl, sig, [i \in 1..n |-> NaN])
        column == tbl1[FoldName(a, b)]
        rows == Subframe(tbl1, a, b)
        data == SubframeData(column, rows)
        hist_dist == Histogram(data)
        labels == [i \in 1..n |->
                      IF i \in rows THEN Classify(Cdf(hist_dist, column[i]), p)
                      ELSE NaN]
    IN  IF significance \notin {"all", "nterm"}
        THEN PercentileLoop([cols |-> cols1, tbl |-> tbl1, err |-> ""],
                            pairs, t + 1, p)
        ELSE IF \E k \in DOMAIN data : ~IsFinite(data[k])
        THEN [cols |-> cols1, tbl |-> tbl1, err |-> "ValueError"]
        ELSE PercentileLoop([cols |-> cols1,
                             tbl |-> AssignVals(tbl1, sig, labels),
                             err |-> ""],
                            pairs, t + 1, p)

SigColumns(tbl) ==
    {c \in DOMAIN tbl :
        \E i, j \in DOMAIN conditions :
            c = SigName(conditions[i].name, conditions[j].name)}

\* the percentiles handed to percentile_fold, in hundredths
Cutoffs == {5, 25, 40}

percentile_fold(p) ==
    /\ \/ pc \in {"conditions", "corrected"}
       \/ pc = "classified" /\ lastPercentile = 0 /\ p # percentile
    /\ LET pairs == IF Len(conditions) > 1
                    THEN Permutations2(Len(conditions)) ELSE <<>>
       IN  \E out \in {PercentileLoop([cols |-> annotCols, tbl |-> annot,
                                       err |-> ""], pairs, 1, p)} :
               /\ annotCols' = out.cols
               /\ annot' = out.tbl
               /\ err' = out.err
               /\ pc' = IF out.err = "" THEN "classified" ELSE "raised"
    /\ percentile' = p
    /\ lastPercentile' = percentile
    /\ lastSig' = [c \in SigColumns(annot) |-> annot[c]]
    /\ UNCHANGED <<df, conditions, pairwise, significance>>
    /\ UNCHANGED <<exoVars, threads>>

----------------------------------------------------------------------------
(* Specification of general_conditions followed by percentile_fold *)

I(n) == Q(n, 1)

\* rows of the quant matrix (values by DfColumns) with the nterm_annot the
\* annotation gave the peptide
RowPool ==
    { [quant |-> <<I(4), I(4), I(4), I(4), I(4), I(4), I(9)>>, nterm |-> "Internal"],
      [quant |-> <<I(1), I(3), I(4), I(4), I(8), I(8), I(9)>>, nterm |-> "Natural"],
      [quant |-> <<I(8), NaNQ, I(1), I(3), I(4), I(4), I(9)>>, nterm |-> "Internal"],
      [quant |-> <<I(5), I(7), I(2), I(2), I(1), I(3), I(9)>>, nterm |-> "Internal"],
      [quant |-> <<I(1), I(1), I(0), I(0), NaNQ, NaNQ, I(9)>>, nterm |-> "Natural"] }

ConditionMaps ==
    { <<>>, <<CondA>>, <<CondA, CondB>>, <<CondA, CondB, CondC>>,
      <<CondA, CondLow>> }

Significances == {"all", "nterm", "cterm"}

\* the state after annotation: the table holds one row per row of self.df
InitStat(rows, conds, pw, sg) ==
    /\ annotCols = BaseColumns
    /\ annot = [c \in Range(BaseColumns) |->
                   IF c = "query_sequence" THEN [i \in DOMAIN rows |-> P6]
                   ELSE IF c = "nterm_annot" THEN [i \in DOMAIN rows |-> rows[i].nterm]
                   ELSE [i \in DOMAIN rows |-> NaN]]
    /\ df = [i \in DOMAIN rows |-> rows[i].quant]
    /\ conditions = conds
    /\ pairwise = pw
    /\ significance = sg
    /\ err = ""
    /\ percentile = 0
    /\ lastPercentile = 0
    /\ lastSig = <<>>
    /\ pc = "annotated"
    /\ cleared = {}
    /\ sequences = <<>>
    /\ pos = 0
    /\ matching = <<>>
    /\ mpos = 0
    /\ compare = <<>>
    /\ lpep = 0
    /\ rag_flag = FALSE
    /\ run = 1
    /\ first = <<>>
    /\ firstSeqs = <<>>
    /\ seeds = <<>>
    /\ lastMatch = "none"
    /\ threads = NoThreads
    /\ perm = <<>>

InitFold ==
    \E rows \in Tables(RowPool, 1..MaxFoldRows) :
    \E conds \in ConditionMaps :
    \E sg \in Significances :
        InitStat(rows, conds, FALSE, sg)

NextFold ==
    \/ general_conditions
    \/ \E p \in Cutoffs : percentile_fold(p)

SpecFold == InitFold /\ [][NextFold]_vars

----------------------------------------------------------------------------
(* Claims about general_conditions and percentile_fold *)

ConditionNames == {conditions[k].name : k \in DOMAIN conditions}

FoldColumns ==
    {FoldName(a, b) : <<a, b>> \in {pr \in ConditionNames \X ConditionNames :
                                       pr[1] # pr[2]}}

Log2FoldColumns ==
    {Log2FoldName(a, b) : <<a, b>> \in {pr \in ConditionNames \X ConditionNames :
                                           pr[1] # pr[2]}}

StatColumns ==
    UNION {{a \o "_mean", a \o "_deviation", a \o "_CV"} : a \in ConditionNames}

\* C7: with k conditions general_conditions adds exactly k*(k-1) distinct
\* Fold_change columns and as many Log2_fold_change columns, one per ordered
\* pair of distinct conditions, and none for k = 1.
C7_FoldColumnCount ==
    pc = "conditions" =>
        LET k == Len(conditions)
            added == Range(annotCols) \ Range(BaseColumns)
        IN  /\ Cardinality(added \cap FoldColumns) = k * (k - 1)
            /\ Cardinality(added \cap Log2FoldColumns) = k * (k - 1)
            /\ Cardinality(FoldColumns) = k * (k - 1)
            /\ added \ StatColumns = FoldColumns \cup Log2FoldColumns
            /\ Len(annotCols) = Cardinality(Range(annotCols))

C7_Witness ==
    /\ pc = "conditions"
    /\ Len(conditions) = 3
    /\ Cardinality(Range(annotCols) \cap FoldColumns) = 6
    /\ "Fold_change: C/A" \in Range(annotCols)

\* percentile_fold has run twice, with two different cutoffs
TwoCutoffs == pc = "classified" /\ lastPercentile # 0

\* the labels of a significance column at the looser and at the tighter of
\* the two cutoffs
LooseSig(c) == IF percentile > lastPercentile THEN annot[c] ELSE lastSig[c]

TightSig(c) == IF percentile > lastPercentile THEN lastSig[c] ELSE annot[c]

\* C9: over one fold-change distribution and cutoffs p' < p below one half, a
\* peptide unmarked at p is unmarked at p', and a peptide significant at p'
\* has the same label at p.
C9_TighteningNeverMarks ==
    TwoCutoffs =>
        \A c \in DOMAIN lastSig : \A i \in DOMAIN lastSig[c] :
            /\ LooseSig(c)[i] = NaN => TightSig(c)[i] = NaN
            /\ TightSig(c)[i] # NaN => LooseSig(c)[i] = TightSig(c)[i]

C9_Witness ==
    /\ TwoCutoffs
    /\ \E c \in DOMAIN lastSig : \E i, j \in DOMAIN lastSig[c] :
           /\ LooseSig(c)[i] = NaN
           /\ TightSig(c)[i] = NaN
           /\ TightSig(c)[j] = "significant high"
           /\ LooseSig(c)[j] = "significant high"

\* C10 as stated: a peptide significant at the looser cutoff p is still
\* significant at the tighter cutoff p'.
C10_TighteningNeverUnmarks ==
    TwoCutoffs =>
        \A c \in DOMAIN lastSig : \A i \in DOMAIN lastSig[c] :
            LooseSig(c)[i] # NaN => TightSig(c)[i] # NaN

\* the rows holding the smallest or the largest non-missing fold change
ExtremeRows(f) ==
    LET data == NotNa(annot[f])
    IN  IF data = <<>> THEN {}
        ELSE {i \in DOMAIN annot[f] : annot[f][i] \in {QMin(data), QMax(data)}}

\* C10 as amended: a peptide significant at the looser cutoff p is at the
\* tighter cutoff p' either unmarked or labelled as before, never the
\* opposite; with scope 'all' the peptides at the minimum and at the maximum
\* of the distribution keep their label.
C10_TighteningKeepsOrUnmarks ==
    TwoCutoffs =>
        /\ \A c \in DOMAIN lastSig : \A i \in DOMAIN lastSig[c] :
               LooseSig(c)[i] # NaN => TightSig(c)[i] \in {NaN, LooseSig(c)[i]}
        /\ significance = "all" =>
               \A a, b \in ConditionNames :
                   a # b => \A i \in ExtremeRows(FoldName(a, b)) :
                       /\ LooseSig(SigName(a, b))[i] # NaN
                       /\ TightSig(SigName(a, b))[i] = LooseSig(SigName(a, b))[i]

C10_Witness ==
    /\ TwoCutoffs
    /\ \E c \in DOMAIN lastSig : \E i, j \in DOMAIN lastSig[c] :
           /\ LooseSig(c)[i] = "significant low"
           /\ TightSig(c)[i] = NaN
           /\ LooseSig(c)[j] = "significant low"
           /\ TightSig(c)[j] = "significant low"

----------------------------------------------------------------------------
(* condition_statistics *)

RECURSIVE JoinNames(_)
\* '_'.join(conditions)
JoinNames(names) ==
    IF Len(names) = 1 THEN names[1]
    ELSE names[1] \o "_" \o JoinNames(Tail(names))

NamesOf(conds) == [k \in DOMAIN conds |-> conds[k].name]

\* the tested groups in order, each with its conditions, its test and its two
\* column names: lines 658-660 in pairwise mode, lines 666-670 otherwise
TestGroups(conds, pw) ==
    IF pw
    THEN LET pairs == Combinations2(Len(conds))
         IN  [t \in DOMAIN pairs |->
                [members |-> pairs[t],
                 test |-> "ttest_ind",
                 column_name |-> "Ttest: " \o conds[pairs[t][1]].name \o "_"
                                    \o conds[pairs[t][2]].name,
                 column_log |-> "Log10_ttest: " \o conds[pairs[t][1]].name \o "_"
                                    \o conds[pairs[t][2]].name]]
    ELSE IF Len(conds) >= 2
    THEN LET stat == IF Len(conds) = 2 THEN "Ttest" ELSE "ANOVA"
         IN  << [members |-> [k \in DOMAIN conds |-> k],
                 test |-> IF Len(conds) = 2 THEN "ttest_ind" ELSE "f_oneway",
                 column_name |-> stat \o ": " \o JoinNames(NamesOf(conds)),
                 column_log |-> "Log10_" \o stat \o ": " \o JoinNames(NamesOf(conds))] >>
    ELSE <<>>

\* the p-values a test may give a row that is not degenerate
PValues == {Q(1, 100), Q(4, 100)}

IsConstant(vals) == \A t \in DOMAIN vals : vals[t] = vals[1]

\* the p-values ttest_ind (pooled variance) can return for one row, given the
\* row's values in each group: NaN when a value is missing or not positive
\* (its log2 is NaN or -Inf), when a group is empty or the groups leave no
\* degree of freedom, and when no value varies and the means agree (0/0); 0
\* when no value varies and the means differ; any p-value otherwise
TestOutcomes(groups) ==
    LET all == Flatten(groups)
        dof == Len(all) - Len(groups)
    IN  IF \/ \E g \in DOMAIN groups : groups[g] = <<>>
           \/ dof <= 0
           \/ \E t \in DOMAIN all : IsNaN(all[t]) \/ ~QLess(Q(0, 1), all[t])
        THEN {NaNQ}
        ELSE IF \A g \in DOMAIN groups : IsConstant(groups[g])
        THEN IF \A g \in DOMAIN groups : groups[g][1] = groups[1][1]
             THEN {NaNQ} ELSE {Q(0, 1)}
        ELSE PValues

\* the sequences whose element at each position is drawn from the set at
\* that position: the results the test can return over the rows
RECURSIVE Choices(_)
Choices(sets) ==
    IF sets = <<>> THEN {<<>>}
    ELSE {<<x>> \o r : x \in sets[1], r \in Choices(Tail(sets))}

\* the values of the members of a group in one row: self.df[cols].values
GroupValues(conds, members, row) ==
    [g \in DOMAIN members |-> RowValues(row, ColsOf(conds[members[g]].channels))]

\* perform_test once per group, in order, the test's p-values being pv
TestAssigns(groups, pv) ==
    Flatten([t \in DOMAIN groups |->
        << <<groups[t].column_name, pv[t]>>,
           <<groups[t].column_log, [i \in DOMAIN pv[t] |-> Log10(pv[t][i])]>> >>])

\* the quant matrix holding the logarithms perform_test computes
ValuesLoggedInPlace(d) ==
    [i \in DOMAIN d |-> [j \in DOMAIN d[i] |-> QSub(d[i][j], Q(1, 1))]]

\* lines 650-651: self.df[cols].values is read and np.log2 gives a new
\* array; self.df is left as it is
ValuesRead(d) == d

\* perform_test takes two column selections: a call with three or more
\* (line 672) raises TypeError before any test is run
TooManyArguments(conds, pw) == ~pw /\ Len(conds) > 2

condition_statistics ==
    /\ pc = "conditions"
    /\ IF TooManyArguments(conditions, pairwise)
       THEN /\ err' = "TypeError"
            /\ pc' = "raised"
            /\ UNCHANGED <<annotCols, annot>>
       ELSE LET groups == TestGroups(conditions, pairwise)
            IN  \E outs \in {[t \in DOMAIN groups |-> [i \in DOMAIN df |->
                                TestOutcomes(GroupValues(conditions,
                                                         groups[t].members, df[i]))]]} :
                \E pv \in Choices([t \in DOMAIN groups |-> Choices(outs[t])]) :
                \E assigns \in {TestAssigns(groups, pv)} :
                    /\ annotCols' = AssignAllCols(annotCols, assigns)
                    /\ annot' = AssignAllVals(annot, assigns)
                    /\ err' = err
                    /\ pc' = "tested"
    /\ df' = ValuesRead(df)
    /\ UNCHANGED <<conditions, pairwise, significance, percentile,
                   lastPercentile, lastSig>>
    /\ UNCHANGED <<exoVars, threads>>

----------------------------------------------------------------------------
(* correct_multiple_testing *)

\* self.multiple_testing, set by the constructor
multiple_testing == "fdr_bh"

\* the number of p-values not larger than pv[l]: the rank of pv[l], the
\* highest one among equal p-values
RankOf(pv, l) == Cardinality({m \in DOMAIN pv : ~QLess(pv[l], pv[m])})

SetMin(S) == CHOOSE x \in S : \A y \in S : ~QLess(y, x)

\* multipletests(pvals, method='fdr_bh')[1] on p-values without NaN: every
\* p-value times n over its rank, made monotone from the largest p-value
\* down and capped at 1
FdrBh(pv) ==
    LET n == Len(pv)
        raw == [l \in DOMAIN pv |-> QDiv(QMul(pv[l], Q(n, 1)), Q(RankOf(pv, l), 1))]
    IN  [i \in DOMAIN pv |->
            SetMin({raw[l] : l \in {m \in DOMAIN pv : ~QLess(pv[m], pv[i])}}
                   \cup {Q(1, 1)})]

\* the missing p-values kept, as 1
PvalsNaNAsOne(pvals) ==
    [i \in DOMAIN pvals |-> IF IsNaN(pvals[i]) THEN Q(1, 1) ELSE pvals[i]]

\* lines 685-686: pvals_no_nan = pvals[~np.isnan(pvals)]
PvalsNoNan(pvals) == NotNa(pvals)

\* the number of non-missing values among the first i
CountNotNa(pvals, i) == Cardinality({t \in 1..i : ~IsNaN(pvals[t])})

\* corrected values written to the first positions
ReassembleCompact(pvals, corrected_no_nan) ==
    [i \in DOMAIN pvals |->
        IF i <= Len(corrected_no_nan) THEN corrected_no_nan[i] ELSE NaNQ]

\* lines 690-692: an all-NaN array with corrected_pvals[not_nan] filled in
Reassemble(pvals, corrected_no_nan) ==
    [i \in DOMAIN pvals |->
        IF IsNaN(pvals[i]) THEN NaNQ
        ELSE corrected_no_nan[CountNotNa(pvals, i)]]

\* the corrected column one place early
CorrectedLocEarly(original_column_idx) == original_column_idx + 1

\* line 696: the place of the corrected column
CorrectedLoc(original_column_idx) == original_column_idx + 2

\* line 697: the place of its log column
CorrectedLogLoc(original_column_idx) == original_column_idx + 3

\* Index.get_loc: the 0-based place of a column
GetLoc(cols, name) == (CHOOSE t \in DOMAIN cols : cols[t] = name) - 1

\* DataFrame.insert at the 0-based place loc
InsertAt(cols, loc, name) ==
    SubSeq(cols, 1, loc) \o <<name>> \o SubSeq(cols, loc + 1, Len(cols))

\* the corrected column names: lines 704-706 and 711-713
CorrectedName(g) == "Corrected " \o g.column_name

CorrectedLogName(g) == "Log10_" \o CorrectedName(g)

\* perform_correction for the groups from position t on.  multipletests
\* divides by the number of p-values: without any it raises
\* ZeroDivisionError or returns an empty array, as the library version has
\* it (emptyRaises).  KeyError: the original column is not in the table;
\* ValueError: insert of a column that exists; IndexError: insert behind the
\* end
RECURSIVE CorrectionLoop(_, _, _, _)
CorrectionLoop(st, groups, t, emptyRaises) ==
    IF t > Len(groups) THEN st
    ELSE
    LET g == groups[t]
    IN  IF g.column_name \notin Range(st.cols)
        THEN [st EXCEPT !.err = "KeyError"]
        ELSE
    LET pvals == st.tbl[g.column_name]
        pvals_no_nan == PvalsNoNan(pvals)
        corrected_pvals == Reassemble(pvals, FdrBh(pvals_no_nan))
        original_column_idx == GetLoc(st.cols, g.column_name)
        cols1 == InsertAt(st.cols, CorrectedLoc(original_column_idx),
                          CorrectedName(g))
        cols2 == InsertAt(cols1, CorrectedLogLoc(original_column_idx),
                          CorrectedLogName(g))
        tbl1 == AssignVals(st.tbl, CorrectedName(g), corrected_pvals)
        tbl2 == AssignVals(tbl1, CorrectedLogName(g),
                           [i \in DOMAIN pvals |-> Log10(corrected_pvals[i])])
    IN  IF pvals_no_nan = <<>> /\ emptyRaises
        THEN [st EXCEPT !.err = "ZeroDivisionError"]
        ELSE IF CorrectedName(g) \in Range(st.cols)
        THEN [st EXCEPT !.err = "ValueError"]
        ELSE IF CorrectedLoc(original_column_idx) > Len(st.cols)
        THEN [st EXCEPT !.err = "IndexError"]
        ELSE IF CorrectedLogName(g) \in Range(cols1)
        THEN [cols |-> cols1, tbl |-> tbl1, err |-> "ValueError"]
        ELSE CorrectionLoop([cols |-> cols2, tbl |-> tbl2, err |-> ""],
                            groups, t + 1, emptyRaises)

\* lines 698-715: the groups to correct, by the name of their p-value
\* column; without pairwise it is the one column of the test over all
\* conditions
CorrectionGroups(conds, pw) ==
    IF pw THEN TestGroups(conds, TRUE)
    ELSE LET col_stat == IF Len(conds) = 2 THEN "Ttest" ELSE "ANOVA"
         IN  << [members |-> [k \in DOMAIN conds |-> k],
                 test |-> IF Len(conds) = 2 THEN "ttest_ind" ELSE "f_oneway",
                 column_name |-> col_stat \o ": " \o JoinNames(NamesOf(conds)),
                 column_log |-> "Log10_" \o col_stat \o ": "
                                    \o JoinNames(NamesOf(conds))] >>

\* a correction that is never skipped
SkipsCorrectionNever(conds) == FALSE

\* line 677: not self.multiple_testing or len(self.conditions) < 2
SkipsCorrection(conds) == multiple_testing = "" \/ Len(conds) < 2

correct_multiple_testing ==
    /\ pc = "tested"
    /\ IF SkipsCorrection(conditions)
       THEN /\ pc' = "corrected"
            /\ UNCHANGED <<annotCols, annot, err>>
       ELSE \E emptyRaises \in BOOLEAN :
            \E out \in {CorrectionLoop([cols |-> annotCols, tbl |-> annot,
                                        err |-> ""],
                                       CorrectionGroups(conditions, pairwise),
                                       1, emptyRaises)} :
                /\ annotCols' = out.cols
                /\ annot' = out.tbl
                /\ err' = out.err
                /\ pc' = IF out.err = "" THEN "corrected" ELSE "raised"
    /\ UNCHANGED <<df, conditions, pairwise, significance, percentile,
                   lastPercentile, lastSig>>
    /\ UNCHANGED <<exoVars, threads>>

----------------------------------------------------------------------------
(* Specification of condition_statistics and correct_multiple_testing *)

ConditionMapsStat ==
    { <<CondA>>, <<CondA, CondB>>, <<CondA, CondB, CondC>>, <<CondB, CondD>> }

InitTest ==
    \E rows \in Tables(RowPool, 1..MaxStatRows) :
    \E conds \in ConditionMapsStat :
    \E pw \in BOOLEAN :
        InitStat(rows, conds, pw, "all")

NextTest ==
    \/ general_conditions
    \/ condition_statistics
    \/ correct_multiple_testing

SpecTest == InitTest /\ [][NextTest]_vars

----------------------------------------------------------------------------
(* Claims on condition_statistics and correct_multiple_testing *)

\* the tested groups of the run
Groups == TestGroups(conditions, pairwise)

\* correct_multiple_testing has returned after correcting the groups
Corrected == pc = "corrected" /\ multiple_testing # "" /\ Len(conditions) >= 2

\* the rows where a column of numbers is missing
NaNIndices(col) == {i \in DOMAIN col : IsNaN(col[i])}

\* C5: for every p-value column handled by correct_multiple_testing, the
\* corrected column has the length of the original column and is NaN at
\* exactly the rows where the original is NaN: the same number of NaN and the
\* same set of NaN rows.
C5_NaNPositionsPreserved ==
    Corrected =>
        \A t \in DOMAIN Groups :
            LET pvals == annot[Groups[t].column_name]
                corrected_pvals == annot[CorrectedName(Groups[t])]
            IN  /\ Len(corrected_pvals) = Len(pvals)
                /\ NaNIndices(corrected_pvals) = NaNIndices(pvals)
                /\ Cardinality(NaNIndices(corrected_pvals))
                       = Cardinality(NaNIndices(pvals))

\* a corrected column whose original has a missing p-value in a row before a
\* row with a p-value
C5_Witness ==
    /\ Corrected
    /\ \E t \in DOMAIN Groups :
           LET pvals == annot[Groups[t].column_name]
               corrected_pvals == annot[CorrectedName(Groups[t])]
           IN  \E i, j \in DOMAIN pvals :
                   /\ i < j
                   /\ IsNaN(pvals[i]) /\ IsNaN(corrected_pvals[i])
                   /\ ~IsNaN(pvals[j]) /\ ~IsNaN(corrected_pvals[j])

\* C6: after condition_statistics and correct_multiple_testing with at least
\* two conditions, the column order of the annotation table holds, for every
\* tested group, the p-value column, its Log10 column, the corrected column
\* and the Log10 corrected column at four consecutive places in that order:
\* for every pair in pairwise mode and for the one group otherwise.
C6_FourConsecutiveColumns ==
    Corrected =>
        \A t \in DOMAIN Groups :
            \E c \in 1..(Len(annotCols) - 3) :
                /\ annotCols[c] = Groups[t].column_name
                /\ annotCols[c + 1] = Groups[t].column_log
                /\ annotCols[c + 2] = CorrectedName(Groups[t])
                /\ annotCols[c + 3] = CorrectedLogName(Groups[t])

\* three pairs corrected in pairwise mode, and one group otherwise
C6_Witness ==
    /\ Corrected
    /\ \/ pairwise /\ Len(Groups) = 3
       \/ ~pairwise /\ Len(Groups) = 1
    /\ \A t \in DOMAIN Groups : CorrectedName(Groups[t]) \in Range(annotCols)

\* condition_statistics has been called
Tested == pc \in {"tested", "corrected", "raised"}

\* C8: without pairwise and with three or more conditions,
\* condition_statistics completes and writes one test over all conditions,
\* the column "ANOVA: c1_..._ck" with its Log10 column; with two conditions
\* it writes the one column "Ttest: A_B".
C8_OmnibusCompletes ==
    (Tested /\ ~pairwise /\ Len(conditions) >= 2) =>
        LET stat == IF Len(conditions) = 2 THEN "Ttest" ELSE "ANOVA"
            column_name == stat \o ": " \o JoinNames(NamesOf(conditions))
        IN  /\ err # "TypeError"
            /\ column_name \in Range(annotCols)
            /\ ("Log10_" \o column_name) \in Range(annotCols)

----------------------------------------------------------------------------
(* Claims on the fold changes and the percentile labels *)

\* general_conditions has returned
HasConditions == pc \in {"conditions", "classified", "raised", "tested", "corrected"}

\* the ordered pairs of distinct condition names
OrderedPairs == {pr \in ConditionNames \X ConditionNames : pr[1] # pr[2]}

\* a mean that is finite and not zero
IsNonZeroFinite(q) == IsFinite(q) /\ q[1] # 0

\* C11: for every ordered pair of distinct conditions (A, B) and every row
\* whose two condition means are finite and not zero, Fold_change: A/B is
\* the reciprocal of Fold_change: B/A and their product is 1, both being the
\* quotient of the same two means.
C11_FoldReciprocal ==
    (HasConditions /\ Len(conditions) > 1) =>
        \A pr \in OrderedPairs : \A i \in DOMAIN df :
            LET mean0 == annot[pr[1] \o "_mean"][i]
                mean1 == annot[pr[2] \o "_mean"][i]
                ab == annot[FoldName(pr[1], pr[2])][i]
                ba == annot[FoldName(pr[2], pr[1])][i]
            IN  (IsNonZeroFinite(mean0) /\ IsNonZeroFinite(mean1)) =>
                    /\ ab = QDiv(mean0, mean1)
                    /\ ab = QDiv(Q(1, 1), ba)
                    /\ QMul(ab, ba) = Q(1, 1)

\* a row with two unequal means, finite and not zero, and its fold changes
C11_Witness ==
    /\ HasConditions
    /\ Len(conditions) > 1
    /\ \E pr \in OrderedPairs : \E i \in DOMAIN df :
           LET mean0 == annot[pr[1] \o "_mean"][i]
               mean1 == annot[pr[2] \o "_mean"][i]
           IN  /\ IsNonZeroFinite(mean0)
               /\ IsNonZeroFinite(mean1)
               /\ QLess(mean0, mean1)
               /\ QLess(annot[FoldName(pr[1], pr[2])][i], Q(1, 1))
               /\ QLess(Q(1, 1), annot[FoldName(pr[2], pr[1])][i])

\* percentile_fold has returned with scope 'all' over two conditions or more
ClassifiedAll ==
    pc = "classified" /\ significance = "all" /\ Len(conditions) > 1

\* the CDF of the histogram of the non-missing values of fold-change column
\* f, at the value of row i
CdfOfRow(f, i) == Cdf(Histogram(NotNa(annot[f])), annot[f][i])

\* the CDF value lies above 1 - percentile
AboveRight(cd) == QLess(Q(PercentScale - percentile, PercentScale), cd)

\* the CDF value lies below percentile
BelowLeft(cd) == QLess(cd, Q(percentile, PercentScale))

\* C12: with scope 'all' and a cutoff 0 < p < 0.5 percentile_fold creates one
\* column "Fold A/B significance" per ordered pair of conditions; a row is
\* 'significant high' exactly when CDF(fold change) > 1 - p, 'significant
\* low' exactly when CDF(fold change) < p and missing otherwise, also when
\* the fold change is missing; no other value occurs and no row meets both
\* conditions.
C12_LabelsFollowCdf ==
    ClassifiedAll =>
        /\ \A pr \in OrderedPairs :
               Cardinality({c \in DOMAIN annotCols :
                               annotCols[c] = SigName(pr[1], pr[2])}) = 1
        /\ Cardinality(SigColumns(annot))
               = Len(conditions) * (Len(conditions) - 1)
        /\ \A pr \in OrderedPairs : \A i \in DOMAIN df :
               LET cd == CdfOfRow(FoldName(pr[1], pr[2]), i)
                   label == annot[SigName(pr[1], pr[2])][i]
               IN  /\ label \in {"significant high", "significant low", NaN}
                   /\ label = "significant high" <=> AboveRight(cd)
                   /\ label = "significant low" <=> BelowLeft(cd)
                   /\ ~(AboveRight(cd) /\ BelowLeft(cd))
                   /\ IsNaN(annot[FoldName(pr[1], pr[2])][i]) => label = NaN

\* a column with a row labelled high, a row labelled low and a row without
\* fold change left unlabelled
C12_Witness ==
    /\ ClassifiedAll
    /\ \E pr \in OrderedPairs : \E i, j, l \in DOMAIN df :
           LET f == annot[FoldName(pr[1], pr[2])]
               label == annot[SigName(pr[1], pr[2])]
           IN  /\ label[i] = "significant high" /\ AboveRight(CdfOfRow(FoldName(pr[1], pr[2]), i))
               /\ label[j] = "significant low" /\ BelowLeft(CdfOfRow(FoldName(pr[1], pr[2]), j))
               /\ label[l] = NaN /\ IsNaN(f[l])

----------------------------------------------------------------------------
(* Specification of the channel selection: condition files with a line     *)
(* that names a condition without any channel, or with a channel substring *)
(* no column holds                                                         *)

\* read_condition_file on the line "E": line.split()[1:] is the empty list
CondE == [name |-> "E", channels |-> <<>>]

\* a condition whose substring occurs in no column name
CondZ == [name |-> "Z", channels |-> << <<"z">> >>]

ConditionMapsSelect ==
    { <<CondE>>, <<CondA, CondE>>, <<CondA, CondZ>>, <<CondZ, CondB>>,
      <<CondC, CondD>>, <<CondA, CondB, CondZ>> }

InitSelect ==
    \E rows \in Tables(RowPool, 1..MaxStatRows) :
    \E conds \in ConditionMapsSelect :
    \E pw \in BOOLEAN :
        InitStat(rows, conds, pw, "all")

NextSelect ==
    \/ general_conditions
    \/ condition_statistics

SpecSelect == InitSelect /\ [][NextSelect]_vars

\* the columns of self.df that hold the quant marker and at least one of the
\* substrings, in column order
ColsWithMarkerAndSubstring(channels) ==
    SelectSeq([j \in DOMAIN DfColumns |-> j],
              LAMBDA j : /\ Contains(DfColumns[j], QuantMarker)
                         /\ \E k \in DOMAIN channels :
                                Contains(DfColumns[j], channels[k]))

\* C13: in general_conditions and condition_statistics a column of the quant
\* matrix is selected for a condition if and only if its name holds the quant
\* marker and at least one of the condition's substrings, for every
\* condition, one with an empty substring list (which selects no column)
\* included; the statistics of a condition are those of these columns.
C13_SelectionBySubstring ==
    HasConditions =>
        \A k \in DOMAIN conditions :
            /\ ColsOf(conditions[k].channels)
                   = ColsWithMarkerAndSubstring(conditions[k].channels)
            /\ \A i \in DOMAIN df :
                   annot[conditions[k].name \o "_mean"][i]
                       = Mean(RowValues(df[i],
                              ColsWithMarkerAndSubstring(conditions[k].channels)))

\* a condition that selects no column
SelectsNothing(cond) == ColsOf(cond.channels) = <<>>

\* C15: when a configured condition selects no quantification channel,
\* condition_statistics aborts the run with an error and writes no p-value
\* column for any group.
C15_NoChannelAborts ==
    (Tested /\ \E k \in DOMAIN conditions : SelectsNothing(conditions[k])) =>
        /\ pc = "raised"
        /\ err # ""
        /\ \A pw \in BOOLEAN : \A t \in DOMAIN TestGroups(conditions, pw) :
               TestGroups(conditions, pw)[t].column_name \notin Range(annotCols)

----------------------------------------------------------------------------
(* Claims on the errors of percentile_fold *)

\* percentile_fold has been called
PercentileCalled == pc \in {"classified", "raised"} /\ percentile # 0

\* C14: when the significance scope is neither 'all' nor 'nterm',
\* percentile_fold (over two conditions or more, where it has pairs to
\* label) raises and ends the run and produces no label column.
C14_InvalidScopeRaises ==
    (PercentileCalled /\ Len(conditions) > 1
         /\ significance \notin {"all", "nterm"}) =>
        /\ pc = "raised"
        /\ err # ""
        /\ SigColumns(annot) = {}

\* a denominator mean that is zero, negative or missing
IsBadDenominator(q) == IsNaN(q) \/ (IsFinite(q) /\ q[1] <= 0)

\* C16: numeric failures of a row never raise: whatever row of the quant
\* matrix has a zero, negative or missing denominator mean,
\* general_conditions followed by percentile_fold runs to completion, the
\* row has a NaN or infinite fold change and a missing significance label,
\* and the other rows are classified.
C16_NumericFailuresNeverRaise ==
    (PercentileCalled /\ Len(conditions) > 1 /\ significance = "all") =>
        /\ pc = "classified"
        /\ err = ""
        /\ \A pr \in OrderedPairs :
               /\ SigName(pr[1], pr[2]) \in Range(annotCols)
               /\ \A i \in DOMAIN df :
                      IF IsBadDenominator(annot[pr[2] \o "_mean"][i])
                      THEN /\ ~IsFinite(annot[FoldName(pr[1], pr[2])][i])
                           /\ annot[SigName(pr[1], pr[2])][i] = NaN
                      ELSE annot[SigName(pr[1], pr[2])][i]
                               = Classify(CdfOfRow(FoldName(pr[1], pr[2]), i),
                                          percentile)

----------------------------------------------------------------------------
(* Claims on the names of the test columns and on the frame of the          *)
(* operations                                                               *)

\* condition_statistics has returned
TestsWritten == pc \in {"tested", "corrected"} /\ err = ""

\* C17: in pairwise and in omnibus mode every test column X written by
\* condition_statistics has a sibling column named "Log10_" followed by X,
\* and every corrected column likewise; the name of a group's log column
\* does not depend on the mode, so that two conditions give the same column
\* names in either mode.
C17_LogSiblingNames ==
    TestsWritten =>
        /\ \A t \in DOMAIN Groups :
               /\ Groups[t].column_name \in Range(annotCols)
               /\ ("Log10_" \o Groups[t].column_name) \in Range(annotCols)
               /\ CorrectedName(Groups[t]) \in Range(annotCols) =>
                      ("Log10_" \o CorrectedName(Groups[t])) \in Range(annotCols)
        /\ Len(conditions) = 2 =>
               /\ TestGroups(conditions, TRUE)[1].column_name
                      = TestGroups(conditions, FALSE)[1].column_name
               /\ TestGroups(conditions, TRUE)[1].column_log
                      = TestGroups(conditions, FALSE)[1].column_log

\* a step of correct_multiple_testing
CorrectionStep == pc = "tested" /\ pc' # "tested"

\* C18: correct_multiple_testing does nothing when fewer than two conditions
\* are configured or no correction method is set: it returns and leaves the
\* columns of the annotation table, their order and all values as they were.
C18_CorrectionNoOp ==
    [][(CorrectionStep /\ (Len(conditions) < 2 \/ multiple_testing = "")) =>
           /\ pc' = "corrected"
           /\ err' = err
           /\ annotCols' = annotCols
           /\ annot' = annot]_vars

\* correct_multiple_testing has returned over a single condition, the table
\* holding the statistics of the condition and nothing else
C18_Witness ==
    /\ pc = "corrected"
    /\ Len(conditions) = 1
    /\ err = ""
    /\ annotCols = BaseColumns
           \o <<conditions[1].name \o "_mean", conditions[1].name \o "_deviation",
                conditions[1].name \o "_CV">>

----------------------------------------------------------------------------
(* Specification of the five operations in the order of the pipeline:       *)
(* general_conditions, condition_statistics, correct_multiple_testing,      *)
(* percentile_fold, exopeptidase                                            *)

\* two conditions of three channels each
CondTreated == [name |-> "treated", channels |-> << <<"a">>, <<"c", "1">> >>]
CondControl == [name |-> "control", channels |-> << <<"b">>, <<"c", "2">> >>]

\* rows of the quant matrix: one with the same value in every channel, two
\* with values that vary
RowPoolPipeline ==
    {r \in RowPool : \A j \in DOMAIN r.quant : IsNonZeroFinite(r.quant[j])}

ConditionMapsPipeline ==
    { <<CondA>>, <<CondA, CondB>>, <<CondTreated, CondControl>> }

\* the peptide of row i
Ladder == <<P7, P6, P5, P10>>

InitPipeline ==
    \E rows \in Tables(RowPoolPipeline, 1..MaxStatRows) :
    \E conds \in ConditionMapsPipeline :
    \E pw \in BOOLEAN :
        /\ annotCols = BaseColumns
        /\ annot = [c \in Range(BaseColumns) |->
                       IF c = "query_sequence" THEN [i \in DOMAIN rows |-> Ladder[i]]
                       ELSE IF c = "nterm_annot"
                            THEN [i \in DOMAIN rows |-> rows[i].nterm]
                       ELSE [i \in DOMAIN rows |-> NaN]]
        /\ df = [i \in DOMAIN rows |-> rows[i].quant]
        /\ conditions = conds
        /\ pairwise = pw
        /\ significance = "all"
        /\ err = ""
        /\ percentile = 0
        /\ lastPercentile = 0
        /\ lastSig = <<>>
        /\ pc = "annotated"
        /\ cleared = {}
        /\ sequences = <<>>
        /\ pos = 0
        /\ matching = <<>>
        /\ mpos = 0
        /\ compare = <<>>
        /\ lpep = 0
        /\ rag_flag = FALSE
        /\ run = 1
        /\ first = <<>>
        /\ firstSeqs = <<>>
        /\ seeds = <<>>
        /\ lastMatch = "none"
        /\ threads = NoThreads
        /\ perm = Identity(Len(rows))

NextPipeline ==
    \/ general_conditions
    \/ condition_statistics
    \/ correct_multiple_testing
    \/ \E p \in Cutoffs : percentile_fold(p)
    \/ ExoBegin
    \/ ExoSkip
    \/ ExoSeed
    \/ ExoCandidate
    \/ ExoReturn

SpecPipeline == InitPipeline /\ [][NextPipeline]_vars

----------------------------------------------------------------------------
(* Claims on the pipeline *)

\* the positions of the program inside exopeptidase and at its return
ExoPositions == {"scan", "walk", "done"}

\* the columns of the table other than exopeptidase
OtherColumns(tbl) == (DOMAIN tbl) \ {"exopeptidase"}

\* C19: none of general_conditions, condition_statistics,
\* correct_multiple_testing, percentile_fold and exopeptidase changes the
\* quant matrix self.df: after any sequence of them its values are those
\* before; and exopeptidase changes no column of the annotation table other
\* than exopeptidase.
C19_QuantMatrixUnchanged ==
    [][/\ df' = df
       /\ pc' \in ExoPositions =>
              /\ OtherColumns(annot') = OtherColumns(annot)
              /\ \A c \in OtherColumns(annot) : annot'[c] = annot[c]
              /\ annotCols' \in {annotCols, Append(annotCols, "exopeptidase")}]_vars

\* the five operations have run: the table holds a corrected p-value column,
\* a significance column and an exopeptidase label
C19_Witness ==
    /\ pc = "done"
    /\ percentile # 0
    /\ Len(conditions) > 1
    /\ \A t \in DOMAIN Groups : CorrectedName(Groups[t]) \in Range(annotCols)
    /\ SigColumns(annot) # {}
    /\ \E i \in DOMAIN df : Exopeptidase[i] = Aminopeptidase
    /\ \E i \in DOMAIN df : \E j \in DOMAIN df[i] : IsNonZeroFinite(df[i][j])

\* two conditions of three channels each, every row with one value in all
\* six channels
IdenticalChannels ==
    /\ conditions = <<CondTreated, CondControl>>
    /\ Len(ColsOf(CondTreated.channels)) = 3
    /\ Len(ColsOf(CondControl.channels)) = 3
    /\ \A i \in DOMAIN df :
           \A j, l \in Range(ColsOf(CondTreated.channels))
                           \cup Range(ColsOf(CondControl.channels)) :
               df[i][j] = df[i][l] /\ IsNonZeroFinite(df[i][j])

\* C20: for two conditions of three channels each and the same value in
\* every channel of every row, the fold change is 1.0 and the log2 fold
\* change 0.0 in both directions, the p-value is about 1.0 and the
\* percentile label is missing in both directions, for every row.
C20_IdenticalChannelsScenario ==
    IdenticalChannels =>
        /\ HasConditions \/ pc \in ExoPositions =>
               \A pr \in OrderedPairs : \A i \in DOMAIN df :
                   /\ annot[FoldName(pr[1], pr[2])][i] = Q(1, 1)
                   /\ annot[Log2FoldName(pr[1], pr[2])][i] = Log2(Q(1, 1))
        /\ \A t \in DOMAIN Groups :
               Groups[t].column_name \in DOMAIN annot =>
                   \A i \in DOMAIN df : annot[Groups[t].column_name][i] = Q(1, 1)
        /\ (percentile # 0 /\ pc # "raised") =>
               \A c \in SigColumns(annot) : \A i \in DOMAIN df :
                   annot[c][i] = NaN

----------------------------------------------------------------------------
(* Claims about the walks of exopeptidase *)

\* the outer loop is at a sequence it takes as seed
AtSeed ==
    /\ pc = "scan"
    /\ pos <= Len(sequences)
    /\ sequences[pos][2] \notin cleared

\* the seed of the walk in progress
Seed == seeds[Len(seeds)]

\* the sequences other than S that end with the anchor of S
Candidates(S) ==
    {q \in Range(QuerySequence) \ {NaNSeq, S} :
        EndsWith(q, LastChars(S, AnchorLen))}

\* the rows, those of S included, whose sequence ends with the anchor of S
AnchorRows(S) ==
    {i \in 1..NRows :
        /\ QuerySequence[i] # NaNSeq
        /\ EndsWith(QuerySequence[i], LastChars(S, AnchorLen))}

\* C21 as stated: when a seed S has fewer than two candidates (sequences
\* other than S ending with its anchor), no step from the one that takes S
\* to the end of the walk of S assigns a label.
C21_FewerThanTwoCandidates ==
    [][/\ (AtSeed /\ Cardinality(Candidates(sequences[pos][2])) < 2) =>
           annot' = annot
       /\ (pc = "walk" /\ Cardinality(Candidates(Seed)) < 2) =>
           annot' = annot]_vars

\* C21, amended: when fewer than two rows, the seed's own included, end with
\* the anchor of the seed S, the step that takes S assigns no label and moves
\* the scan on to the next sequence; with two rows or more a walk of S starts.
C21_FewerThanTwoRows ==
    [][AtSeed =>
           IF Cardinality(AnchorRows(sequences[pos][2])) < 2
           THEN pc' = "scan" /\ pos' = pos + 1 /\ annot' = annot
           ELSE pc' = "walk" /\ pos' = pos /\ compare' = sequences[pos][2]]_vars

\* a seed alone on its anchor, among other sequences, has just been passed
C21_Witness ==
    /\ pc = "scan"
    /\ seeds # <<>>
    /\ Len(sequences) > 1
    /\ Cardinality(AnchorRows(Seed)) = 1
    /\ pos > 1
    /\ sequences[pos - 1][2] = Seed
    /\ Len(matching) = 1

\* the rows whose sequence is pep
RowsOf(pep) == {i \in 1..NRows : QuerySequence[i] = pep}

\* C22: in a walk, a candidate equal to the cursor minus its first residue is
\* labelled Dipeptidase_seed_Aminopeptidase_activity exactly when the match
\* before it in this walk was a two-residue step; otherwise it is labelled
\* Aminopeptidase_activity and the dipeptidase-seed flag is cleared.  A
\* candidate equal to the cursor minus its first two residues is labelled
\* Dipeptidase_activity.
C22_WalkLabels ==
    [][(pc = "walk" /\ mpos <= Len(matching)) =>
           LET pep == matching[mpos][2]
           IN  /\ pep = SliceFrom(compare, 1) =>
                      IF lastMatch = "two"
                      THEN \A i \in RowsOf(pep) :
                               annot'["exopeptidase"][i] = DipeptidaseSeed
                      ELSE /\ \A i \in RowsOf(pep) :
                                  annot'["exopeptidase"][i] = Aminopeptidase
                           /\ rag_flag' = FALSE
               /\ pep = SliceFrom(compare, 2) =>
                      \A i \in RowsOf(pep) :
                          annot'["exopeptidase"][i] = Dipeptidase]_vars

\* a two-residue step, a one-residue step and a second one-residue step have
\* been made in one walk
C22_Witness ==
    /\ HasExo
    /\ seeds = <<P9>>
    /\ compare = P5
    /\ lastMatch = "one"
    /\ rag_flag = FALSE
    /\ \E i, j, k \in 1..NRows :
           /\ QuerySequence[i] = P7 /\ Exopeptidase[i] = Dipeptidase
           /\ QuerySequence[j] = P6 /\ Exopeptidase[j] = DipeptidaseSeed
           /\ QuerySequence[k] = P5 /\ Exopeptidase[k] = Aminopeptidase

\* C23: within one call, a row that has a non-missing label keeps that label
\* in every later step of the call.
C23_WriteOnce ==
    [][(HasExo /\ pc \in {"scan", "walk"}) =>
           \A i \in 1..NRows :
               Labelled(i) => annot'["exopeptidase"][i] = Exopeptidase[i]]_vars

\* the call is in progress or has returned
InRun == HasExo /\ pc \in {"scan", "walk", "done"}

\* the length of the longest sequence of the table
MaxSeqLen ==
    CHOOSE n \in {Len(QuerySequence[i]) : i \in 1..NRows} \cup {0} :
        \A i \in 1..NRows :
            QuerySequence[i] # NaNSeq => Len(QuerySequence[i]) <= n

\* C27: in every state of a run, every row of a sequence that has been taken
\* as seed has a missing label; at the end every sequence of maximal length
\* is unlabelled; every labelled sequence is in cleared.
C27_SeedsStayUnlabelled ==
    InRun =>
        /\ \A k \in DOMAIN seeds : \A i \in RowsOf(seeds[k]) : ~Labelled(i)
        /\ pc = "done" =>
               \A i \in 1..NRows :
                   (QuerySequence[i] # NaNSeq
                      /\ Len(QuerySequence[i]) >= MaxSeqLen) => ~Labelled(i)
        /\ \A i \in 1..NRows : Labelled(i) => QuerySequence[i] \in cleared

\* the call has ended after two walks or more, the second of which has given
\* a label
C27_Witness ==
    /\ InRun
    /\ pc = "done"
    /\ Len(seeds) >= 2
    /\ \E i \in 1..NRows :
           /\ Labelled(i)
           /\ QuerySequence[i] = SliceFrom(seeds[2], 1)
    /\ \E i, j \in 1..NRows :
           /\ i # j
           /\ QuerySequence[i] = seeds[1]
           /\ QuerySequence[j] = seeds[1]

\* the sequences of the table
InTable == Range(QuerySequence) \ {NaNSeq}

\* C28: at the end of exopeptidase, a sequence p labelled
\* Aminopeptidase_activity or Dipeptidase_seed_Aminopeptidase_activity has a
\* sequence q in the table with q[1:] = p; one labelled Dipeptidase_activity
\* has a q with q[2:] = p; one labelled
\* Dipeptidase_seed_Aminopeptidase_activity has an r in the table with
\* r[2:] = q as well; every labelled sequence has 5 residues or more.
C28_LabelsSound ==
    (HasExo /\ pc = "done") =>
        \A i \in 1..NRows :
            LET p == QuerySequence[i]
                label == Exopeptidase[i]
            IN  /\ label \in {NaN, Aminopeptidase, Dipeptidase, DipeptidaseSeed}
                /\ label # NaN => (p # NaNSeq /\ Len(p) >= 5)
                /\ label = Aminopeptidase =>
                       \E q \in InTable : Len(q) = Len(p) + 1 /\ SubSeq(q, 2, Len(q)) = p
                /\ label = Dipeptidase =>
                       \E q \in InTable : Len(q) = Len(p) + 2 /\ SubSeq(q, 3, Len(q)) = p
                /\ label = DipeptidaseSeed =>
                       \E q, r \in InTable :
                           /\ Len(q) = Len(p) + 1 /\ SubSeq(q, 2, Len(q)) = p
                           /\ Len(r) = Len(q) + 2 /\ SubSeq(r, 3, Len(r)) = q

\* the call has ended with the three labels in the table, one of them on a
\* sequence of 5 residues
C28_Witness ==
    /\ HasExo
    /\ pc = "done"
    /\ {Aminopeptidase, Dipeptidase, DipeptidaseSeed} \subseteq Range(Exopeptidase)
    /\ \E i \in RowsOf(P5) : Labelled(i)

\* C29: at the end of exopeptidase, every sequence p of 5 residues or more
\* for which the table holds a sequence q with q[1:] = p has a non-missing
\* label, in every row order and among any other sequences.
C29_OneResidueComplete ==
    (HasExo /\ pc = "done") =>
        \A i \in 1..NRows :
            LET p == QuerySequence[i]
            IN  (/\ p # NaNSeq
                 /\ Len(p) >= 5
                 /\ \E q \in InTable :
                        Len(q) = Len(p) + 1 /\ SubSeq(q, 2, Len(q)) = p)
                    => Labelled(i)

\* FGHIJ is labelled behind EFGHIJ, which was itself matched in the walk of
\* a longer seed, in a table that holds a sequence of another series before
\* them
C29_Witness ==
    /\ HasExo
    /\ pc = "done"
    /\ NRows = 4
    /\ QuerySequence[1] = P5
    /\ QuerySequence[2] = X8
    /\ P6 \in InTable
    /\ P6 \notin Range(seeds)
    /\ Labelled(1)

----------------------------------------------------------------------------
(* One call of exopeptidase, run to its end *)

InitScan ==
    \E table \in Tables(PoolOrder \cup {NaNSeq}, 0..MaxRows) :
        /\ InitTable(table)
        /\ perm = Identity(Len(table))

NextScan ==
    \/ ExoBegin
    \/ ExoSkip
    \/ ExoSeed
    \/ ExoCandidate
    \/ ExoReturn

\* the loops are sequential code: an enabled step is taken
SpecScan == InitScan /\ [][NextScan]_vars /\ WF_vars(NextScan)

\* the walk is at the candidate q, which is not cleared and continues neither
\* by one nor by two residues: the step skips it
SkipsUncleared(q) ==
    /\ pc = "walk"
    /\ mpos <= Len(matching)
    /\ matching[mpos][2] = q
    /\ q \notin cleared
    /\ q # SliceFrom(compare, 1)
    /\ q # SliceFrom(compare, 2)

ScanEnds == <>(pc = "done")

AllClearedAtEnd ==
    [](pc = "done" =>
          \A i \in 1..NRows :
              QuerySequence[i] # NaNSeq => QuerySequence[i] \in cleared)

SeedsOnce == [](\A i, j \in DOMAIN seeds : seeds[i] = seeds[j] => i = j)

ClearedNeverSeeded ==
    [][seeds' # seeds => seeds'[Len(seeds')] \notin cleared]_vars

\* C24 as stated: the scan terminates with every non-missing sequence in
\* cleared, each distinct sequence seeds at most one walk, a cleared sequence
\* is never taken as seed afterwards, and a candidate skipped without being
\* matched is taken as a seed later.
C24_SkippedIsSeeded ==
    /\ ScanEnds
    /\ AllClearedAtEnd
    /\ SeedsOnce
    /\ ClearedNeverSeeded
    /\ \A q \in PoolOrder : SkipsUncleared(q) ~> (q \in Range(seeds))

\* C24, amended: the scan terminates with every non-missing sequence in
\* cleared, each distinct sequence seeds at most one walk, a cleared sequence
\* is never taken as seed afterwards, and a candidate skipped without being
\* matched stays out of cleared at that step and is later either taken as a
\* seed or matched (labelled) in the walk of a seed that comes before it.
C24_SkippedIsSeededOrMatched ==
    /\ ScanEnds
    /\ AllClearedAtEnd
    /\ SeedsOnce
    /\ ClearedNeverSeeded
    /\ [][\A q \in PoolOrder : SkipsUncleared(q) => q \notin cleared']_vars
    /\ \A q \in PoolOrder :
           SkipsUncleared(q) ~>
               (q \in Range(seeds) \/ (HasExo /\ \E i \in RowsOf(q) : Labelled(i)))

\* DEFGHIJ was skipped in the walk of XYEFGHIJ, which labelled EFGHIJ, and
\* was the next seed
C24_Witness ==
    /\ pc = "done"
    /\ seeds = <<X8, P7>>
    /\ \E i \in RowsOf(P6) : Labelled(i)
    /\ cleared = {X8, P7, P6}

----------------------------------------------------------------------------
(* Claims about the values of the correction *)

\* the rows of a column that hold a value
Present(col) == {i \in DOMAIN col : ~IsNaN(col[i])}

\* the place of row i among the rows that hold a value
PlaceOf(col, i) == Cardinality({j \in Present(col) : j <= i})

\* the column with its missing entries removed, in the same relative order
WithoutMissing(col) ==
    [k \in 1..Cardinality(Present(col)) |->
        col[CHOOSE i \in Present(col) : PlaceOf(col, i) = k]]

\* C25: the corrected value at every non-missing row of a p-value column is
\* the value the correction procedure gives that p-value on the column with
\* its missing entries removed, so two columns with the same non-missing
\* p-values in the same order get the same corrected values, wherever their
\* missing entries are.
C25_CorrectionOnNonMissing ==
    Corrected =>
        /\ \A t \in DOMAIN Groups :
               LET pvals == annot[Groups[t].column_name]
                   corrected_pvals == annot[CorrectedName(Groups[t])]
               IN  \A i \in Present(pvals) :
                       corrected_pvals[i] =
                           FdrBh(WithoutMissing(pvals))[PlaceOf(pvals, i)]
        /\ \A t, u \in DOMAIN Groups :
               WithoutMissing(annot[Groups[t].column_name])
                     = WithoutMissing(annot[Groups[u].column_name])
                 => WithoutMissing(annot[CorrectedName(Groups[t])])
                     = WithoutMissing(annot[CorrectedName(Groups[u])])

\* a corrected column with a missing p-value before a p-value, whose corrected
\* value is the one of a column of that p-value alone
C25_Witness ==
    /\ Corrected
    /\ \E t \in DOMAIN Groups :
           LET pvals == annot[Groups[t].column_name]
               corrected_pvals == annot[CorrectedName(Groups[t])]
           IN  /\ IsNaN(pvals[1])
               /\ pvals[Len(pvals)] = Q(4, 100)
               /\ corrected_pvals[Len(pvals)] = Q(4, 100)

----------------------------------------------------------------------------
(* threaded_annotate: batches of entry_annotate calls on a thread pool.  The  *)
(* row indices are those of the code, from 0.                                 *)

threadVars == <<annotCols, annot, pc, exoVars, statVars>>

\* range(i, i + batch_length)
Batch(i, batch_length) == [k \in 1..batch_length |-> i + k - 1]

\* the index is a label of self.df: self.df.loc[loc, ...] finds the row
InIndex(loc, length) == loc >= 0 /\ loc < length

\* lines 764-772: the call up to the loop.  range(0, length, batch_length)
\* raises ValueError when batch_length is 0
threaded_annotate ==
    /\ threads.pc = "idle"
    /\ \E cpu_count \in 1..MaxCpu :
           LET length == Len(df)
               batch_length == Min(cpu_count, length)
           IN  threads' =
                   [pc |-> IF batch_length = 0 THEN "raised" ELSE "loop",
                    err |-> IF batch_length = 0 THEN "ValueError" ELSE "",
                    length |-> length,
                    batch_length |-> batch_length,
                    i |-> 0,
                    batch |-> <<>>,
                    worker |-> <<>>,
                    invoked |-> [loc \in 0..(length + batch_length) |-> 0],
                    completed |-> [loc \in 0..(length + batch_length) |-> 0]]
    /\ UNCHANGED threadVars

\* lines 774-780: the next batch is handed to a new pool; executor.map submits
\* every index of it
BatchSubmit ==
    /\ threads.pc = "loop"
    /\ threads.i < threads.length
    /\ threads' = [threads EXCEPT
                       !.pc = "pool",
                       !.batch = Batch(threads.i, threads.batch_length),
                       !.worker = [k \in 1..threads.batch_length |-> "queued"]]
    /\ UNCHANGED threadVars

\* a worker thread takes a submitted index and calls entry_annotate
WorkerCall(k) ==
    /\ threads.pc = "pool"
    /\ k \in DOMAIN threads.worker
    /\ threads.worker[k] = "queued"
    /\ threads' = [threads EXCEPT
                       !.worker[k] = "running",
                       !.invoked[threads.batch[k]] = @ + 1]
    /\ UNCHANGED threadVars

\* lines 757-759: entry_annotate ends.  process_entry reads self.df.loc[loc];
\* an index that is not in self.df raises KeyError, which stays in the future
\* that executor.map returned and nobody reads
WorkerEnd(k) ==
    /\ threads.pc = "pool"
    /\ k \in DOMAIN threads.worker
    /\ threads.worker[k] = "running"
    /\ IF InIndex(threads.batch[k], threads.length)
       THEN threads' = [threads EXCEPT
                           !.worker[k] = "done",
                           !.completed[threads.batch[k]] = @ + 1]
       ELSE threads' = [threads EXCEPT !.worker[k] = "KeyError"]
    /\ UNCHANGED threadVars

\* the end of the with block: shutdown(wait=True) returns when every worker
\* has ended
PoolJoin ==
    /\ threads.pc = "pool"
    /\ \A k \in DOMAIN threads.worker :
           threads.worker[k] \in {"done", "KeyError"}
    /\ threads' = [threads EXCEPT !.pc = "loop",
                                  !.i = @ + threads.batch_length]
    /\ UNCHANGED threadVars

\* the range is exhausted: threaded_annotate returns
ThreadsReturn ==
    /\ threads.pc = "loop"
    /\ threads.i >= threads.length
    /\ threads' = [threads EXCEPT !.pc = "returned"]
    /\ UNCHANGED threadVars

\* self.df after sanitize and filter_df: any number of rows
InitThreads ==
    \E length \in 0..MaxLength :
        /\ InitTable([i \in 1..length |-> NaNSeq])
        /\ perm = <<>>

NextThreads ==
    \/ threaded_annotate
    \/ BatchSubmit
    \/ \E k \in 1..MaxCpu : WorkerCall(k)
    \/ \E k \in 1..MaxCpu : WorkerEnd(k)
    \/ PoolJoin
    \/ ThreadsReturn

SpecThreads == InitThreads /\ [][NextThreads]_vars

ThreadsCalled == threads.pc # "idle"

\* C26: for every table length, threaded_annotate returns; when it has,
\* entry_annotate has run to its end exactly once for every row index in
\* [0, length) and no worker is running; entry_annotate is never called with
\* an index outside [0, length); the workers of a batch have distinct rows.
C26_EveryRowOnce ==
    ThreadsCalled =>
        /\ threads.pc # "raised"
        /\ \A loc \in DOMAIN threads.invoked :
               ~InIndex(loc, threads.length) => threads.invoked[loc] = 0
        /\ threads.pc = "returned" =>
               /\ \A loc \in 0..(threads.length - 1) :
                      threads.invoked[loc] = 1 /\ threads.completed[loc] = 1
               /\ \A k \in DOMAIN threads.worker :
                      threads.worker[k] # "running"
        /\ \A k, l \in DOMAIN threads.batch :
               k # l => threads.batch[k] # threads.batch[l]

----------------------------------------------------------------------------
(* Claims about the scope of percentile_fold *)

\* percentile_fold has returned with scope 'nterm' over two conditions or more
ClassifiedNterm ==
    pc = "classified" /\ significance = "nterm" /\ Len(conditions) > 1

InternalRows == {i \in DOMAIN df : annot["nterm_annot"][i] = "Internal"}

\* the rows the pair's distribution is built from
ChosenRows(pr) ==
    IF EndsWithLow(pr[1], pr[2]) THEN (DOMAIN df) \ InternalRows
    ELSE InternalRows

\* the label the CDF value of a row asks for
LabelOf(cd) ==
    IF AboveRight(cd) THEN "significant high"
    ELSE IF BelowLeft(cd) THEN "significant low"
    ELSE NaN

\* C30: with scope 'nterm', for every ordered pair the distribution is the
\* histogram of the fold changes of the rows whose nterm_annot is 'Internal'
\* (of the other rows when the fold-change column name ends in 'low'), the
\* rows of that subset are labelled by their CDF value in it, and every row
\* outside the subset is unmarked in the pair's significance column.
C30_NtermScope ==
    ClassifiedNterm =>
        \A pr \in OrderedPairs : \A i \in DOMAIN df :
            LET f == annot[FoldName(pr[1], pr[2])]
                chosen == ChosenRows(pr)
                data == NotNa([k \in DOMAIN f |->
                                  IF k \in chosen THEN f[k] ELSE NaNQ])
                label == annot[SigName(pr[1], pr[2])][i]
            IN  IF i \in chosen
                THEN label = LabelOf(Cdf(Histogram(data), f[i]))
                ELSE label = NaN

\* in the pair over 'low' a row that is not Internal is marked and an
\* Internal row with a fold change is not; in the opposite pair it is the
\* other way round
C30_Witness ==
    /\ ClassifiedNterm
    /\ \E pr \in OrderedPairs : \E i, j \in DOMAIN df :
           /\ EndsWithLow(pr[1], pr[2])
           /\ i \in InternalRows
           /\ j \notin InternalRows
           /\ ~IsNaN(annot[FoldName(pr[1], pr[2])][i])
           /\ annot[SigName(pr[1], pr[2])][i] = NaN
           /\ annot[SigName(pr[1], pr[2])][j] # NaN
           /\ ~IsNaN(annot[FoldName(pr[2], pr[1])][j])
           /\ annot[SigName(pr[2], pr[1])][j] = NaN
           /\ annot[SigName(pr[2], pr[1])][i] # NaN

====
